---- MODULE Spec2Model ----
(***************************************************************************)
(* KPL-UI: the bulk import runner (src/src/utils/bulkImport.js) together   *)
(* with the part of the API client its create requests pass through        *)
(* (src/src/services/api.js).                                              *)
(*                                                                         *)
(* A run of bulkImportPlayers is an async function: its synchronous        *)
(* segments between two awaits are the actions of the model, and pc[r] is  *)
(* the await the run is suspended at.  trace is the global order of the    *)
(* observable events (progress calls, requests, responses, timers).        *)
(*                                                                         *)
(* Spec is the runner as the repository calls it (BulkImport.jsx           *)
(* handleImport): one run at a time, over an array of records, with a      *)
(* progress callback that returns normally (setProgress) or with none.     *)
(* The assignment window.location.href = '/login' of the response          *)
(* interceptor is modelled as the assignment it is; the page load the      *)
(* browser starts from it is not part of the code.                         *)
(*                                                                         *)
(* ParseSpec is a call of parsePlayerText on a pasted text.  DashSpec is   *)
(* the Dashboard with its PlayerForm, and ImportSpec the Dashboard with    *)
(* the BulkImport dialog, which parses the text and starts the run; both   *)
(* keep no log of their own, and their requests pass through the same      *)
(* interceptors.  AppSpec is the App with its routes and its session       *)
(* check, TwoSpec two runs of the runner at once, ThrowSpec a run whose    *)
(* progress callback may throw, ListSpec the Dashboard's overlapping list  *)
(* requests, and PageSpec the Dashboard's search box and pagination.       *)
(***************************************************************************)
EXTENDS Integers, Sequences, FiniteSets, TLC

\* ------------------------------------------------------------------ bounds
MaxPlayers == 3      \* longest batch handed to bulkImportPlayers
TickMs == 50         \* granularity of the clock while a timer is pending

\* --------------------------------------------------------------- JS values
\* A JavaScript value of a record field: null, a string or a number.
JsNull == [t |-> "null", s |-> "", n |-> 0]
Str(s) == [t |-> "str", s |-> s, n |-> 0]
Num(n) == [t |-> "num", s |-> "", n |-> n]

\* JavaScript truthiness: null, "" and 0 are falsy.
Truthy(v) == ~(v.t = "null" \/ (v.t = "str" /\ v.s = "") \/ (v.t = "num" /\ v.n = 0))

\* a || b
Or(a, b) == IF Truthy(a) THEN a ELSE b

\* ------------------------------------------------------------------ inputs
Runs == {1}

\* The records a batch is drawn from: {name, position, jersey_number, team_id}.
Records ==
  { [name |-> "Alex", position |-> Str("Bowler"), jersey_number |-> JsNull, team_id |-> JsNull],
    [name |-> "Sam",  position |-> Str("Player"), jersey_number |-> Num(0), team_id |-> JsNull],
    [name |-> "Ravi", position |-> JsNull,        jersey_number |-> Num(7), team_id |-> Num(2)] }

RECURSIVE SeqsUpTo(_, _)
SeqsUpTo(S, n) ==
  IF n = 0 THEN { <<>> }
  ELSE LET shorter == SeqsUpTo(S, n - 1)
       IN shorter \cup { Append(q, x) : q \in { p \in shorter : Len(p) = n - 1 }, x \in S }

Batches == SeqsUpTo(Records, MaxPlayers)

\* What the server (or the network) can answer to a create request: the
\* axios outcome.  status 0 stands for "no response" (a network error).
\* dataMessage is response.data.message, message is error.message.
Outcomes ==
  { [ok |-> TRUE,  status |-> 201, dataMessage |-> JsNull, message |-> ""],
    [ok |-> FALSE, status |-> 400, dataMessage |-> Str("Player already exists"),
       message |-> "Request failed with status code 400"],
    [ok |-> FALSE, status |-> 403, dataMessage |-> JsNull,
       message |-> "Request failed with status code 403"],
    [ok |-> FALSE, status |-> 401, dataMessage |-> Str("Invalid token"),
       message |-> "Request failed with status code 401"],
    [ok |-> FALSE, status |-> 0, dataMessage |-> JsNull, message |-> "Network Error"] }

\* ================================================================ the parser
\* src/src/utils/bulkImport.js, parsePlayerText.  A JavaScript string is the
\* sequence of its characters.

MaxTokens == 3       \* longest pasted text, in words of Vocabulary

UpperCase ==
  <<"A", "B", "C", "D", "E", "F", "G", "H", "I", "J", "K", "L", "M", "N", "O", "P", "Q", "R", "S", "T", "U", "V", "W", "X", "Y", "Z">>
LowerCase ==
  <<"a", "b", "c", "d", "e", "f", "g", "h", "i", "j", "k", "l", "m", "n", "o", "p", "q", "r", "s", "t", "u", "v", "w", "x", "y", "z">>

\* The /i flag: letters are compared without regard to case.
ToLower(c) ==
  IF \E k \in 1..Len(UpperCase) : UpperCase[k] = c
  THEN LowerCase[CHOOSE k \in 1..Len(UpperCase) : UpperCase[k] = c]
  ELSE c

\* The characters String.prototype.trim removes.
IsSpace(c) == c \in {" ", "\t", "\n", "\r"}

RECURSIVE TrimStart(_)
TrimStart(str) ==
  IF str # << >> /\ IsSpace(Head(str)) THEN TrimStart(Tail(str)) ELSE str

RECURSIVE TrimEnd(_)
TrimEnd(str) ==
  IF str # << >> /\ IsSpace(str[Len(str)])
  THEN TrimEnd(SubSeq(str, 1, Len(str) - 1))
  ELSE str

\* str.trim()
Trim(str) == TrimEnd(TrimStart(str))

\* Mutant: the text after the last newline is lost.
RECURSIVE SplitLinesDropLast(_)
SplitLinesDropLast(text) ==
  IF \E k \in 1..Len(text) : text[k] = "\n"
  THEN LET k == CHOOSE x \in 1..Len(text) :
                  text[x] = "\n" /\ \A y \in 1..(x - 1) : text[y] # "\n"
       IN << SubSeq(text, 1, k - 1) >> \o SplitLinesDropLast(SubSeq(text, k + 1, Len(text)))
  ELSE << >>

\* text.split('\n')
RECURSIVE SplitLines(_)
SplitLines(text) ==
  IF \E k \in 1..Len(text) : text[k] = "\n"
  THEN LET k == CHOOSE x \in 1..Len(text) :
                  text[x] = "\n" /\ \A y \in 1..(x - 1) : text[y] # "\n"
       IN << SubSeq(text, 1, k - 1) >> \o SplitLines(SubSeq(text, k + 1, Len(text)))
  ELSE << text >>

\* Mutant: the generic "all rounder" is tried before the two compound roles.
positionKeywordsGenericFirst ==
  << [pattern |-> <<"b", "a", "t", "s", "m", "a", "n">>,
      position |-> "Batsman"],
     [pattern |-> <<"b", "o", "w", "l", "e", "r">>,
      position |-> "Bowler"],
     [pattern |-> <<"a", "l", "l", " ", "r", "o", "u", "n", "d", "e", "r">>,
      position |-> "All Rounder"],
     [pattern |-> <<"b", "a", "t", "t", "i", "n", "g", " ", "a", "l", "l", " ", "r", "o", "u", "n", "d", "e", "r">>,
      position |-> "Batting All Rounder"],
     [pattern |-> <<"b", "o", "w", "l", "i", "n", "g", " ", "a", "l", "l", " ", "r", "o", "u", "n", "d", "e", "r">>,
      position |-> "Bowling All Rounder"],
     [pattern |-> <<"w", "i", "c", "k", "e", "t", " ", "k", "e", "e", "p", "e", "r">>,
      position |-> "Wicket Keeper"],
     [pattern |-> <<"w", "i", "c", "k", "e", "t", "k", "e", "e", "p", "e", "r">>,
      position |-> "Wicket Keeper"] >>

\* positionKeywords: the suffix patterns (each /...$/i) and their labels, in
\* the order they are tried.
positionKeywords ==
  << [pattern |-> <<"b", "a", "t", "s", "m", "a", "n">>,
      position |-> "Batsman"],
     [pattern |-> <<"b", "o", "w", "l", "e", "r">>,
      position |-> "Bowler"],
     [pattern |-> <<"b", "a", "t", "t", "i", "n", "g", " ", "a", "l", "l", " ", "r", "o", "u", "n", "d", "e", "r">>,
      position |-> "Batting All Rounder"],
     [pattern |-> <<"b", "o", "w", "l", "i", "n", "g", " ", "a", "l", "l", " ", "r", "o", "u", "n", "d", "e", "r">>,
      position |-> "Bowling All Rounder"],
     [pattern |-> <<"a", "l", "l", " ", "r", "o", "u", "n", "d", "e", "r">>,
      position |-> "All Rounder"],
     [pattern |-> <<"w", "i", "c", "k", "e", "t", " ", "k", "e", "e", "p", "e", "r">>,
      position |-> "Wicket Keeper"],
     [pattern |-> <<"w", "i", "c", "k", "e", "t", "k", "e", "e", "p", "e", "r">>,
      position |-> "Wicket Keeper"] >>

\* pattern.test(str) for /<pattern>$/i
Test(pattern, str) ==
  /\ Len(pattern) <= Len(str)
  /\ \A k \in 1..Len(pattern) :
       ToLower(str[Len(str) - Len(pattern) + k]) = ToLower(pattern[k])

\* str.replace(pattern, '') for a pattern that matches: the suffix is removed.
Replace(pattern, str) == SubSeq(str, 1, Len(str) - Len(pattern))

\* Mutant: a line without keyword gets no position.
ParseLineNoDefault(trimmed) ==
  LET hits == { k \in 1..Len(positionKeywords) : Test(positionKeywords[k].pattern, trimmed) } IN
  IF hits = {}
  THEN [name |-> trimmed, position |-> JsNull, jersey_number |-> JsNull, team_id |-> JsNull]
  ELSE LET kw == positionKeywords[CHOOSE k \in hits : \A j \in hits : k <= j] IN
       [name |-> Trim(Replace(kw.pattern, trimmed)), position |-> Str(kw.position),
        jersey_number |-> JsNull, team_id |-> JsNull]

\* The body of the loop over the lines: the first keyword that matches gives
\* the position and is cut off the name; without a match the line is the name.
ParseLine(trimmed) ==
  LET hits == { k \in 1..Len(positionKeywords) : Test(positionKeywords[k].pattern, trimmed) } IN
  IF hits = {}
  THEN [name |-> trimmed, position |-> Str("Player"), jersey_number |-> JsNull, team_id |-> JsNull]
  ELSE LET kw == positionKeywords[CHOOSE k \in hits : \A j \in hits : k <= j] IN
       [name |-> Trim(Replace(kw.pattern, trimmed)), position |-> Str(kw.position),
        jersey_number |-> JsNull, team_id |-> JsNull]

RECURSIVE ParseLines(_)
ParseLines(lines) ==
  IF lines = << >> THEN << >>
  ELSE (IF Trim(Head(lines)) = << >> THEN << >> ELSE << ParseLine(Trim(Head(lines))) >>)
       \o ParseLines(Tail(lines))

parsePlayerText(text) ==
  ParseLines(SelectSeq(SplitLines(text), LAMBDA line : Trim(line) # << >>))

\* The words pasted texts are made of.
Vocabulary ==
  { <<"A", "l">>,
    <<" ">>,
    <<"\n">>,
    <<"b", "a", "t", "s", "m", "a", "n">>,
    <<"B", "O", "W", "L", "E", "R">>,
    <<"B", "a", "t", "t", "i", "n", "g", " ", "A", "l", "l", " ", "R", "o", "u", "n", "d", "e", "r">>,
    <<"b", "o", "w", "l", "i", "n", "g", " ", "a", "l", "l", " ", "r", "o", "u", "n", "d", "e", "r">>,
    <<"a", "l", "l", " ", "r", "o", "u", "n", "d", "e", "r">>,
    <<"W", "i", "c", "k", "e", "t", " ", "K", "e", "e", "p", "e", "r">>,
    <<"w", "i", "c", "k", "e", "t", "k", "e", "e", "p", "e", "r">>,
    <<"\n", "\t", "\n">> }

RECURSIVE TextsUpTo(_)
TextsUpTo(n) ==
  IF n = 0 THEN { << >> }
  ELSE LET shorter == TextsUpTo(n - 1) IN
       shorter \cup { t \o w : t \in shorter, w \in Vocabulary }

Texts == TextsUpTo(MaxTokens)

VARIABLES
  players,       \* players[r]: the array bulkImportPlayers was called with
  onProgress,    \* onProgress[r]: TRUE when a progress callback was supplied
  pc,            \* pc[r]: "loop" | "create" | "pause" | "done" | "rejected"
  i,             \* i[r]: the loop index (0-based, as in the code)
  results,       \* results[r]: {success, failed, total}
  waited,        \* waited[r]: time elapsed since the pending setTimeout was set
  network,       \* create requests in flight
  localStorage,  \* {token, user}
  location,      \* window.location.href
  trace,         \* observable events, in the order they happened
  parser,        \* a call of parsePlayerText: {text, players, pc}
  bulkImport,    \* the BulkImport dialog's state
  dashboard,     \* the Dashboard's state
  playerForm,    \* the PlayerForm's state
  app,           \* the App's state
  listLog,       \* which list request the displayed players list answers
  pager          \* the Dashboard's search and pagination state

\* The variables of the runner and of the API client.
runVars == <<players, onProgress, pc, i, results, waited, network, localStorage, location, trace>>

\* The variables of the components around it.
uiVars == <<parser, bulkImport, dashboard, playerForm, app, listLog, pager>>

vars == <<players, onProgress, pc, i, results, waited, network, localStorage, location, trace,
          parser, bulkImport, dashboard, playerForm, app, listLog, pager>>

\* ------------------------------------------------------------------ events
ProgressEvent(r, idx, info) == [type |-> "progress", run |-> r, idx |-> idx, arg |-> info]
RequestEvent(r, idx, req)   == [type |-> "request",  run |-> r, idx |-> idx, arg |-> req]
ResponseEvent(r, idx, o)    == [type |-> "response", run |-> r, idx |-> idx, arg |-> o]
TimerSetEvent(r, idx, ms)   == [type |-> "setTimeout", run |-> r, idx |-> idx, arg |-> ms]
TimerFiredEvent(r, idx, w)  == [type |-> "timeout",  run |-> r, idx |-> idx, arg |-> w]
ReturnEvent(r, res)         == [type |-> "return",   run |-> r, idx |-> 0, arg |-> res]

\* ------------------------------------------------------------- API client
\* Mutant: the header is attached whether or not a token is stored.
RequestInterceptorAlways(storage) == "Bearer " \o storage.token

\* The request interceptor: the Authorization header of an outgoing request
\* ("" when none is attached).
RequestInterceptor(storage) ==
  IF storage.token # "" THEN "Bearer " \o storage.token ELSE ""

\* Mutant: only 401 ends the session.
ResponseInterceptor401Only(o, storage, loc) ==
  IF o.status = 401
  THEN <<[token |-> "", user |-> ""], "/login">>
  ELSE <<storage, loc>>

\* The response interceptor's effect on <<localStorage, location>> for a
\* failed request.
ResponseInterceptor(o, storage, loc) ==
  IF o.status = 401 \/ o.status = 403
  THEN <<[token |-> "", user |-> ""], "/login">>
  ELSE <<storage, loc>>

\* ------------------------------------------------------------ the runner
DelayMs == 100

\* Mutant: current is the 0-based loop index.
ProgressInfoZeroBased(r) ==
  [current |-> i[r], total |-> Len(players[r]), player |-> players[r][i[r] + 1].name]

\* The object handed to the progress callback.
ProgressInfo(r) ==
  [current |-> i[r] + 1, total |-> Len(players[r]), player |-> players[r][i[r] + 1].name]

\* The body of the create request for a record.
CreatePayload(player) ==
  [player_name   |-> player.name,
   position      |-> Or(player.position, Str("Player")),
   jersey_number |-> Or(player.jersey_number, JsNull),
   team_id       |-> Or(player.team_id, JsNull)]

\* playersAPI.create: POST /players through the request interceptor.
CreateRequest(r) ==
  [run |-> r, idx |-> i[r] + 1, method |-> "POST", url |-> "/players",
   data |-> CreatePayload(players[r][i[r] + 1]),
   authorization |-> RequestInterceptor(localStorage)]

\* Mutant: the generic text is used even when the server sent a message.
ErrorMessageGenericOnly(o) == o.message

\* error.response?.data?.message || error.message
ErrorMessage(o) ==
  IF o.status # 0 /\ Truthy(o.dataMessage) THEN o.dataMessage.s ELSE o.message

\* Mutant: the request is issued first, the progress call follows.
IterationEventsRequestFirst(r) ==
  << RequestEvent(r, i[r] + 1, CreateRequest(r)) >>
  \o (IF onProgress[r] THEN << ProgressEvent(r, i[r] + 1, ProgressInfo(r)) >> ELSE << >>)

\* Mutant: the callback is never invoked.
IterationEventsNoProgress(r) ==
  << RequestEvent(r, i[r] + 1, CreateRequest(r)) >>

\* What one loop iteration does up to its first await, in order: the
\* progress call (when a callback was supplied), then the create request.
IterationEvents(r) ==
  (IF onProgress[r] THEN << ProgressEvent(r, i[r] + 1, ProgressInfo(r)) >> ELSE << >>)
  \o << RequestEvent(r, i[r] + 1, CreateRequest(r)) >>

NewResults(ps) == [success |-> << >>, failed |-> << >>, total |-> Len(ps)]

\* The runs in `active` have just been called, each with a batch and with or
\* without a progress callback; the other runs are never started.
InitRuns(active) ==
  /\ players \in [Runs -> Batches]
  /\ onProgress \in [Runs -> BOOLEAN]
  /\ \A r \in Runs \ active : players[r] = << >> /\ ~onProgress[r]
  /\ pc = [r \in Runs |-> IF r \in active THEN "loop" ELSE "idle"]
  /\ i = [r \in Runs |-> 0]
  /\ results = [r \in Runs |-> NewResults(players[r])]
  /\ waited = [r \in Runs |-> 0]
  /\ network = {}
  /\ localStorage = [token |-> "tok", user |-> "admin"]
  /\ location = "/dashboard"
  /\ trace = << >>

\* No call of parsePlayerText is under way.
NoParser == [text |-> << >>, players |-> << >>, pc |-> "idle"]

\* The components that take no part in a specification: not mounted.
Unmounted == [mounted |-> FALSE]

\* No list request has been issued yet.  latest is the call whose list
\* request was issued last; current tells whether the displayed players list
\* is the response to that request, answered whether that request has been
\* answered with a list.
NoListLog == [latest |-> 0, current |-> FALSE, answered |-> FALSE]

Init ==
  /\ InitRuns({1})
  /\ parser = NoParser
  /\ bulkImport = Unmounted
  /\ dashboard = Unmounted
  /\ playerForm = Unmounted
  /\ app = Unmounted
  /\ listLog = NoListLog
  /\ pager = Unmounted

\* Mutant: the create call is not awaited; the loop goes straight on.
IterateNoAwait(r) ==
  /\ pc[r] = "loop"
  /\ i[r] < Len(players[r])
  /\ network' = network \cup { CreateRequest(r) }
  /\ trace' = trace \o IterationEvents(r)
  /\ i' = [i EXCEPT ![r] = @ + 1]
  /\ UNCHANGED <<players, onProgress, pc, results, waited, localStorage, location>>

\* for (...; i < players.length; ...) { try { onProgress?.(...); await create(...)
Iterate(r) ==
  /\ pc[r] = "loop"
  /\ i[r] < Len(players[r])
  /\ network' = network \cup { CreateRequest(r) }
  /\ trace' = trace \o IterationEvents(r)
  /\ pc' = [pc EXCEPT ![r] = "create"]
  /\ UNCHANGED <<players, onProgress, i, results, waited, localStorage, location>>

\* Mutant: the name is put at the front of success.
CreateSucceedsUnshift(r, req, o) ==
  /\ results' = [results EXCEPT ![r].success = << players[r][i[r] + 1].name >> \o @]
  /\ waited' = [waited EXCEPT ![r] = 0]
  /\ pc' = [pc EXCEPT ![r] = "pause"]
  /\ trace' = trace \o << ResponseEvent(r, req.idx, o), TimerSetEvent(r, req.idx, DelayMs) >>
  /\ UNCHANGED <<i, localStorage, location>>

\* Mutant: one accumulator for all runs.
CreateSucceedsShared(r, req, o) ==
  /\ results' = [results EXCEPT ![1].success = Append(@, players[r][i[r] + 1].name)]
  /\ waited' = [waited EXCEPT ![r] = 0]
  /\ pc' = [pc EXCEPT ![r] = "pause"]
  /\ trace' = trace \o << ResponseEvent(r, req.idx, o), TimerSetEvent(r, req.idx, DelayMs) >>
  /\ UNCHANGED <<i, localStorage, location>>

\* The create request of run r settles successfully: push the name, set the timer.
CreateSucceeds(r, req, o) ==
  /\ results' = [results EXCEPT ![r].success = Append(@, players[r][i[r] + 1].name)]
  /\ waited' = [waited EXCEPT ![r] = 0]
  /\ pc' = [pc EXCEPT ![r] = "pause"]
  /\ trace' = trace \o << ResponseEvent(r, req.idx, o), TimerSetEvent(r, req.idx, DelayMs) >>
  /\ UNCHANGED <<i, localStorage, location>>

\* A failing create: the response interceptor has run (api.js) and the catch
\* block pushes {name, error} onto failed.
FailureRecorded(r, req, o) ==
  /\ results' = [results EXCEPT ![r].failed =
                   Append(@, [name |-> players[r][i[r] + 1].name, error |-> ErrorMessage(o)])]
  /\ localStorage' = ResponseInterceptor(o, localStorage, location)[1]
  /\ location' = ResponseInterceptor(o, localStorage, location)[2]

\* Mutant: the first failure ends the loop (break).
CreateFailsBreak(r, req, o) ==
  /\ FailureRecorded(r, req, o)
  /\ i' = [i EXCEPT ![r] = Len(players[r])]
  /\ pc' = [pc EXCEPT ![r] = "loop"]
  /\ trace' = Append(trace, ResponseEvent(r, req.idx, o))
  /\ UNCHANGED waited

\* Mutant: a failed record is submitted again.
CreateFailsRetry(r, req, o) ==
  /\ FailureRecorded(r, req, o)
  /\ pc' = [pc EXCEPT ![r] = "loop"]
  /\ trace' = Append(trace, ResponseEvent(r, req.idx, o))
  /\ UNCHANGED <<i, waited>>

\* Mutant: the failure is not caught and rejects the run.
CreateFailsRethrow(r, req, o) ==
  /\ localStorage' = ResponseInterceptor(o, localStorage, location)[1]
  /\ location' = ResponseInterceptor(o, localStorage, location)[2]
  /\ pc' = [pc EXCEPT ![r] = "rejected"]
  /\ trace' = Append(trace, ResponseEvent(r, req.idx, o))
  /\ UNCHANGED <<results, i, waited>>

\* Mutant: the pause is taken after a failure too (the timer set in a finally).
CreateFailsThenPause(r, req, o) ==
  /\ FailureRecorded(r, req, o)
  /\ waited' = [waited EXCEPT ![r] = 0]
  /\ pc' = [pc EXCEPT ![r] = "pause"]
  /\ trace' = trace \o << ResponseEvent(r, req.idx, o), TimerSetEvent(r, req.idx, DelayMs) >>
  /\ UNCHANGED i

\* Mutant: a 401 or 403 ends the loop, other failures do not.
CreateFailsUnauthorizedEnds(r, req, o) ==
  /\ FailureRecorded(r, req, o)
  /\ i' = [i EXCEPT ![r] = IF o.status \in {401, 403} THEN Len(players[r]) ELSE @ + 1]
  /\ pc' = [pc EXCEPT ![r] = "loop"]
  /\ trace' = Append(trace, ResponseEvent(r, req.idx, o))
  /\ UNCHANGED waited

\* The create request of run r fails: the response interceptor runs, the
\* catch block records the failure and the loop goes on.
CreateFails(r, req, o) ==
  /\ FailureRecorded(r, req, o)
  /\ i' = [i EXCEPT ![r] = @ + 1]
  /\ pc' = [pc EXCEPT ![r] = "loop"]
  /\ trace' = Append(trace, ResponseEvent(r, req.idx, o))
  /\ UNCHANGED waited

\* A create request in flight is answered.
CreateSettles(r) ==
  /\ pc[r] = "create"
  /\ \E req \in network, o \in Outcomes :
       /\ "run" \in DOMAIN req /\ req.run = r
       /\ network' = network \ {req}
       /\ IF o.ok THEN CreateSucceeds(r, req, o) ELSE CreateFails(r, req, o)
  /\ UNCHANGED <<players, onProgress>>

\* Time passes while some timer is pending.
Tick ==
  /\ \E r \in DOMAIN pc : pc[r] = "pause" /\ waited[r] < DelayMs
  /\ waited' = [r \in DOMAIN waited |->
                  IF pc[r] = "pause" /\ waited[r] < DelayMs
                  THEN (IF waited[r] + TickMs > DelayMs THEN DelayMs ELSE waited[r] + TickMs)
                  ELSE waited[r]]
  /\ UNCHANGED <<players, onProgress, pc, i, results, network, localStorage, location, trace>>

\* Mutant: the timer fires without the delay having elapsed.
TimerFiresAtOnce(r) ==
  /\ pc[r] = "pause"
  /\ i' = [i EXCEPT ![r] = @ + 1]
  /\ pc' = [pc EXCEPT ![r] = "loop"]
  /\ trace' = Append(trace, TimerFiredEvent(r, i[r] + 1, waited[r]))
  /\ UNCHANGED <<players, onProgress, results, waited, network, localStorage, location>>

\* setTimeout(resolve, 100) fires once the delay has elapsed; next iteration.
TimerFires(r) ==
  /\ pc[r] = "pause"
  /\ waited[r] >= DelayMs
  /\ i' = [i EXCEPT ![r] = @ + 1]
  /\ pc' = [pc EXCEPT ![r] = "loop"]
  /\ trace' = Append(trace, TimerFiredEvent(r, i[r] + 1, waited[r]))
  /\ UNCHANGED <<players, onProgress, results, waited, network, localStorage, location>>

\* The loop is over: return results.
Return(r) ==
  /\ pc[r] = "loop"
  /\ i[r] >= Len(players[r])
  /\ pc' = [pc EXCEPT ![r] = "done"]
  /\ trace' = Append(trace, ReturnEvent(r, results[r]))
  /\ UNCHANGED <<players, onProgress, i, results, waited, network, localStorage, location>>

Next ==
  \/ \E r \in Runs : Iterate(r) /\ UNCHANGED uiVars
  \/ \E r \in Runs : CreateSettles(r) /\ UNCHANGED uiVars
  \/ Tick /\ UNCHANGED uiVars
  \/ \E r \in Runs : TimerFires(r) /\ UNCHANGED uiVars
  \/ \E r \in Runs : Return(r) /\ UNCHANGED uiVars

Spec == Init /\ [][Next]_vars

\* ----------------------------------------------------------- trace helpers
Active == { r \in Runs : pc[r] # "idle" }
N(r) == Len(players[r])

\* The positions of the trace holding an event of this type for record k of run r.
At(type, r, k) ==
  { p \in 1..Len(trace) : trace[p].type = type /\ trace[p].run = r /\ trace[p].idx = k }

\* The records of run r whose create request has been answered, and how.
Settled(r) == { k \in 1..N(r) : At("response", r, k) # {} }
OutcomeOf(r, k) == trace[CHOOSE p \in At("response", r, k) : TRUE].arg
SucceededAt(r, k) == k \in Settled(r) /\ OutcomeOf(r, k).ok
FailedAt(r, k) == k \in Settled(r) /\ ~OutcomeOf(r, k).ok

Succeeded(r) == { k \in Settled(r) : OutcomeOf(r, k).ok }
Failed(r) == { k \in Settled(r) : ~OutcomeOf(r, k).ok }

\* The names of the records of run r among 1..n whose index is in S, in
\* input order.
RECURSIVE NamesWhere(_, _, _)
NamesWhere(r, n, S) ==
  IF n = 0 THEN << >>
  ELSE NamesWhere(r, n - 1, S)
         \o (IF n \in S THEN << players[r][n].name >> ELSE << >>)

FailedNames(r) == [k \in 1..Len(results[r].failed) |-> results[r].failed[k].name]

\* ------------------------------------------------------------------ claims

\* C1: for every batch of N records and every pattern of per-item create
\* outcomes, the returned result has success.length + failed.length = N =
\* total, success is the names of the succeeding records in input order and
\* failed is the failing records in input order.
C1_ResultPartitionsBatch ==
  \A r \in Active :
    pc[r] = "done" =>
      /\ Len(results[r].success) + Len(results[r].failed) = N(r)
      /\ results[r].total = N(r)
      /\ results[r].success = NamesWhere(r, N(r), Succeeded(r))
      /\ FailedNames(r) = NamesWhere(r, N(r), Failed(r))

\* A run of three records has returned with the second record failed and the
\* other two created.
C1_Witness ==
  /\ pc[1] = "done" /\ N(1) = 3
  /\ SucceededAt(1, 1) /\ FailedAt(1, 2) /\ SucceededAt(1, 3)
  /\ players[1][1].name # players[1][3].name

\* C2: a failed create request for record k never aborts the run: the run is
\* never rejected, the failure shows as an entry of failed, and a run that has
\* returned has submitted every record k+1..N after the failure of k.
C2_FailureDoesNotAbort ==
  \A r \in Active :
    /\ pc[r] # "rejected"
    /\ \A k \in 1..N(r) :
         FailedAt(r, k) =>
           /\ \E f \in 1..Len(results[r].failed) :
                results[r].failed[f].name = players[r][k].name
           /\ pc[r] = "done" =>
                \A j \in (k + 1)..N(r) :
                  \E q \in At("request", r, j) :
                    \A p \in At("response", r, k) : p < q

\* A run has returned after its first record failed and a later record was
\* still submitted and created.
C2_Witness ==
  /\ pc[1] = "done" /\ N(1) = 3
  /\ FailedAt(1, 1) /\ SucceededAt(1, 3)

\* C3: within one run at most one create request is in flight at any time,
\* and requests are issued in array order: the request for record k+1 is
\* issued only after the request for record k has settled.
C3_OneRequestInFlightInOrder ==
  \A r \in Active :
    /\ Cardinality({ req \in network : req.run = r }) <= 1
    /\ \A k \in 1..N(r) :
         \A q \in At("request", r, k) :
           /\ \A j \in 1..(k - 1) : \E p \in At("response", r, j) : p < q
           /\ \A j \in (k + 1)..N(r) : \A p \in At("request", r, j) : q < p

\* The request for the third record is in flight after the first two settled.
C3_Witness ==
  /\ pc[1] = "create" /\ i[1] = 2
  /\ \E req \in network : req.run = 1 /\ req.idx = 3
  /\ Settled(1) = {1, 2}

\* C4: a run over N records issues exactly N create requests, one per record:
\* no record is ever submitted twice, every request is a POST to /players, and
\* a run that has returned has submitted each record once.
C4_ExactlyOneCreatePerRecord ==
  \A r \in Active :
    /\ \A k \in 1..N(r) : Cardinality(At("request", r, k)) <= 1
    /\ \A p \in 1..Len(trace) :
         (trace[p].type = "request" /\ trace[p].run = r) =>
           /\ trace[p].idx \in 1..N(r)
           /\ trace[p].arg.method = "POST" /\ trace[p].arg.url = "/players"
    /\ pc[r] = "done" =>
         /\ \A k \in 1..N(r) : Cardinality(At("request", r, k)) = 1
         /\ Cardinality({ p \in 1..Len(trace) :
                            trace[p].type = "request" /\ trace[p].run = r }) = N(r)

\* A run of three records has returned although one of them failed.
C4_Witness ==
  /\ pc[1] = "done" /\ N(1) = 3
  /\ \E k \in 1..3 : FailedAt(1, k)
  /\ \E k \in 1..3 : SucceededAt(1, k)

\* The run is scheduled fairly: a continuation that is ready runs, a pending
\* timer fires, and a request in flight is answered.
LiveSpec == Spec /\ WF_vars(Next)

\* C5: for every batch and every combination of per-item outcomes, every
\* item failing included, if each create request eventually settles the run
\* eventually returns its result, and it never ends in a rejection.
C5_RunAlwaysReturns ==
  \A r \in Runs :
    /\ (pc[r] # "idle") ~> (pc[r] = "done")
    /\ [](pc[r] # "rejected")

\* A run of three records has returned with every record failed.
C5_Witness ==
  /\ pc[1] = "done" /\ N(1) = 3
  /\ Failed(1) = {1, 2, 3}
  /\ Len(results[1].failed) = 3 /\ results[1].success = << >>

\* The events of run r, in order, and its progress calls.
RunTrace(r) == SelectSeq(trace, LAMBDA e : e.run = r)
ProgressCalls(r) == SelectSeq(trace, LAMBDA e : e.type = "progress" /\ e.run = r)

\* C6: with a progress callback and N records, the callback is invoked exactly
\* N times, current taking 1, 2, ..., N in that order, total equal to N on
\* every call and player the name of the record being submitted.
C6_ProgressCalledOncePerRecord ==
  \A r \in Active :
    onProgress[r] =>
      LET calls == ProgressCalls(r) IN
      /\ Len(calls) <= N(r)
      /\ \A c \in 1..Len(calls) :
           /\ calls[c].arg.current = c
           /\ calls[c].arg.total = N(r)
           /\ calls[c].arg.player = players[r][c].name
      /\ pc[r] = "done" => Len(calls) = N(r)

\* A run with a callback has returned after three progress calls.
C6_Witness ==
  /\ pc[1] = "done" /\ N(1) = 3 /\ onProgress[1]
  /\ Len(ProgressCalls(1)) = 3

\* C7: for every record k, the progress call with current = k happens before
\* the create request for record k is issued, and after the request for
\* record k-1 has settled.
C7_ProgressBeforeRequest ==
  \A r \in Active :
    onProgress[r] =>
      \A k \in 1..N(r) :
        \A q \in At("request", r, k) :
          \E p \in At("progress", r, k) :
            /\ p < q
            /\ trace[p].arg.current = k
            /\ k > 1 => \E s \in At("response", r, k - 1) : s < p

\* The second record of a run with a callback has been submitted.
C7_Witness ==
  /\ onProgress[1]
  /\ At("request", 1, 2) # {}
  /\ At("progress", 1, 2) # {}

\* C8 as stated: the progress call reporting record k happens after the
\* create request for record k has settled.
C8_ProgressAfterSettle ==
  \A r \in Active :
    \A k \in 1..N(r) :
      \A p \in At("progress", r, k) :
        \E s \in At("response", r, k) : s < p

\* C8, amended: the progress call reporting record k happens before the
\* create request for record k has settled, and none follows its settlement.
C8_ProgressBeforeSettle ==
  \A r \in Active :
    onProgress[r] =>
      \A k \in 1..N(r) :
        \A s \in At("response", r, k) :
          /\ \E p \in At("progress", r, k) : p < s
          /\ \A p \in At("progress", r, k) : p < s

\* The second record of a run with a callback has settled.
C8_Witness ==
  /\ onProgress[1]
  /\ At("response", 1, 2) # {}
  /\ At("progress", 1, 2) # {}

\* C9: after each successful create request the run waits the fixed 100-unit
\* pause: the timer is set for 100 units when the request succeeds, and no
\* progress call or create request for record k+1 occurs until it has fired,
\* at least 100 units later.
C9_PauseAfterSuccess ==
  \A r \in Active :
    \A k \in 1..N(r) :
      SucceededAt(r, k) =>
        /\ \E t \in At("setTimeout", r, k) : trace[t].arg = 100
        /\ \A q \in At("progress", r, k + 1) \cup At("request", r, k + 1) :
             \E t \in At("timeout", r, k) :
               /\ t < q
               /\ \A s \in At("response", r, k) : s < t
               /\ trace[t].arg >= 100

\* The second record has been submitted after the first was created.
C9_Witness ==
  /\ SucceededAt(1, 1)
  /\ At("request", 1, 2) # {}

\* C10 as stated: after a create request settles, succeeded or failed, the
\* next record is taken up only after the pause has elapsed.
C10_PauseAfterEverySettle ==
  \A r \in Active :
    \A k \in Settled(r) :
      \A q \in At("progress", r, k + 1) \cup At("request", r, k + 1) :
        \E t \in At("timeout", r, k) : t < q /\ trace[t].arg >= 100

\* C10, amended: a successful request is followed by the pause of at least 100
\* units before the run goes on; a failed request is followed by no timer at
\* all: the next thing the run does is the next record's progress call or
\* request, or its return.
C10_PauseOnlyAfterSuccess ==
  \A r \in Active :
    LET rt == RunTrace(r) IN
    \A p \in 1..Len(rt) :
      rt[p].type = "response" =>
        IF rt[p].arg.ok
        THEN /\ p + 1 <= Len(rt) /\ rt[p + 1].type = "setTimeout"
             /\ p + 2 <= Len(rt) => (rt[p + 2].type = "timeout" /\ rt[p + 2].arg >= 100)
        ELSE /\ At("setTimeout", r, rt[p].idx) = {}
             /\ At("timeout", r, rt[p].idx) = {}
             /\ p + 1 <= Len(rt) => rt[p + 1].type \in {"progress", "request", "return"}

\* The second record has been submitted right after the first one failed, and
\* the third after the second was created.
C10_Witness ==
  /\ FailedAt(1, 1) /\ SucceededAt(1, 2)
  /\ At("request", 1, 2) # {} /\ At("request", 1, 3) # {}

\* The indices among 1..n that are in S, in increasing order.
RECURSIVE IndexSeq(_, _)
IndexSeq(n, S) ==
  IF n = 0 THEN << >>
  ELSE IndexSeq(n - 1, S) \o (IF n \in S THEN << n >> ELSE << >>)

\* The failure carried a response whose data has a non-empty message field.
HasServerMessage(o) ==
  o.status # 0 /\ o.dataMessage.t = "str" /\ o.dataMessage.s # ""

\* C11: each entry of failed carries the failing record's name and an error
\* that is the server-supplied message field of the failure when there is
\* one, and the failure's generic error text otherwise.
C11_FailedEntryCarriesBestMessage ==
  \A r \in Active :
    LET idx == IndexSeq(N(r), Failed(r)) IN
    /\ Len(results[r].failed) = Len(idx)
    /\ \A f \in 1..Len(idx) :
         LET o == OutcomeOf(r, idx[f]) IN
         /\ results[r].failed[f].name = players[r][idx[f]].name
         /\ results[r].failed[f].error =
              (IF HasServerMessage(o) THEN o.dataMessage.s ELSE o.message)

\* failed holds one entry with the server's message, one with the generic
\* text of a response without a message and one of a request without response.
C11_Witness ==
  /\ Len(results[1].failed) = 3
  /\ results[1].failed[1].error = "Player already exists"
  /\ results[1].failed[2].error = "Request failed with status code 403"
  /\ results[1].failed[3].error = "Network Error"

ParseInit ==
  /\ InitRuns({})
  /\ parser \in { [text |-> t, players |-> << >>, pc |-> "call"] : t \in Texts }
  /\ bulkImport = Unmounted
  /\ dashboard = Unmounted
  /\ playerForm = Unmounted
  /\ app = Unmounted
  /\ listLog = NoListLog
  /\ pager = Unmounted

ParsePlayerTextCall ==
  /\ parser.pc = "call"
  /\ parser' = [parser EXCEPT !.players = parsePlayerText(parser.text), !.pc = "returned"]
  /\ UNCHANGED <<runVars, bulkImport, dashboard, playerForm, app, listLog, pager>>

ParseNext == ParsePlayerTextCall

ParseSpec == ParseInit /\ [][ParseNext]_vars

\* The lines of a text, read off its characters: a line is non-blank when it
\* holds a character that is no white space; it starts at its first such
\* character and ends at its last.
Newlines(t) == { p \in 1..Len(t) : t[p] = "\n" }
\* The last newline before p (0 when there is none), the first after p
\* (Len(t) + 1 when there is none).
NewlineBefore(t, p) ==
  LET before == { x \in Newlines(t) : x < p } IN
  IF before = {} THEN 0 ELSE CHOOSE x \in before : \A y \in before : y <= x
NewlineAfter(t, p) ==
  LET after == { x \in Newlines(t) : x > p } IN
  IF after = {} THEN Len(t) + 1 ELSE CHOOSE x \in after : \A y \in after : x <= y
LineStarts(t) ==
  { p \in 1..Len(t) :
      /\ ~IsSpace(t[p])
      /\ \A x \in (NewlineBefore(t, p) + 1)..(p - 1) : IsSpace(t[x]) }
LineEnd(t, p) ==
  CHOOSE q \in p..(NewlineAfter(t, p) - 1) :
    /\ ~IsSpace(t[q])
    /\ \A x \in (q + 1)..(NewlineAfter(t, p) - 1) : IsSpace(t[x])
\* The non-blank lines of t, trimmed, in order.
TrimmedLines(t) ==
  LET starts == IndexSeq(Len(t), LineStarts(t)) IN
  [k \in 1..Len(starts) |-> SubSeq(t, starts[k], LineEnd(t, starts[k]))]

IsPrefix(a, b) == Len(a) <= Len(b) /\ SubSeq(b, 1, Len(a)) = a

\* The seven keywords of the claims with their labels, in the claims' order.
Keywords ==
  << [word |-> <<"b", "a", "t", "s", "m", "a", "n">>,
      label |-> "Batsman"],
     [word |-> <<"b", "o", "w", "l", "e", "r">>,
      label |-> "Bowler"],
     [word |-> <<"b", "a", "t", "t", "i", "n", "g", " ", "a", "l", "l", " ", "r", "o", "u", "n", "d", "e", "r">>,
      label |-> "Batting All Rounder"],
     [word |-> <<"b", "o", "w", "l", "i", "n", "g", " ", "a", "l", "l", " ", "r", "o", "u", "n", "d", "e", "r">>,
      label |-> "Bowling All Rounder"],
     [word |-> <<"a", "l", "l", " ", "r", "o", "u", "n", "d", "e", "r">>,
      label |-> "All Rounder"],
     [word |-> <<"w", "i", "c", "k", "e", "t", " ", "k", "e", "e", "p", "e", "r">>,
      label |-> "Wicket Keeper"],
     [word |-> <<"w", "i", "c", "k", "e", "t", "k", "e", "e", "p", "e", "r">>,
      label |-> "Wicket Keeper"] >>

\* The keywords that a line ends with, by their place in Keywords.
Matching(line) == { k \in 1..Len(Keywords) : Test(Keywords[k].word, line) }

\* C13: for every input text, empty and white-space-only text included,
\* parsePlayerText returns exactly one record per non-blank line, in line
\* order (the record's name is the beginning of its line), each with
\* jersey_number null and team_id null.
C13_OneRecordPerNonBlankLine ==
  parser.pc = "returned" =>
    LET lines == TrimmedLines(parser.text) IN
    /\ Len(parser.players) = Len(lines)
    /\ \A k \in 1..Len(lines) :
         /\ IsPrefix(parser.players[k].name, lines[k])
         /\ parser.players[k].jersey_number = JsNull
         /\ parser.players[k].team_id = JsNull

\* A text of three lines, the second of them white space only, has been
\* parsed into two records.
C13_Witness ==
  /\ parser.pc = "returned"
  /\ parser.text = <<"A", "l", "\n", "\t", "\n", "b", "a", "t", "s", "m", "a", "n">>
  /\ Len(parser.players) = 2

\* C14: for every line the keyword suffixes are tested without regard to case
\* in the fixed order; the first that matches gives the position label, and
\* the name is the line without that suffix, trimmed; whenever two keywords
\* match, the longer one is the one that wins.
C14_FirstKeywordWinsLongest ==
  parser.pc = "returned" =>
    LET lines == TrimmedLines(parser.text) IN
    /\ Len(parser.players) = Len(lines)
    /\ \A k \in 1..Len(lines) :
         LET m == Matching(lines[k]) IN
         m # {} =>
           LET first == Keywords[CHOOSE x \in m : \A y \in m : x <= y]
               rec == parser.players[k] IN
           /\ rec.position = Str(first.label)
           /\ rec.name = Trim(SubSeq(lines[k], 1, Len(lines[k]) - Len(first.word)))
           /\ \A y \in m : Len(Keywords[y].word) <= Len(first.word)

\* A line ending in "Batting All Rounder", which "all rounder" matches too,
\* has been parsed into the name before it and the compound label.
C14_Witness ==
  /\ parser.pc = "returned"
  /\ Len(parser.players) = 1
  /\ Matching(TrimmedLines(parser.text)[1]) = {3, 5}
  /\ parser.players[1].position = Str("Batting All Rounder")
  /\ parser.players[1].name = <<"A", "l">>

\* C15: for every non-blank line that ends with none of the seven keywords,
\* the record's name is the whole trimmed line and its position is "Player".
C15_NoKeywordIsPlayer ==
  parser.pc = "returned" =>
    LET lines == TrimmedLines(parser.text) IN
    /\ Len(parser.players) = Len(lines)
    /\ \A k \in 1..Len(lines) :
         Matching(lines[k]) = {} =>
           /\ parser.players[k].name = lines[k]
           /\ parser.players[k].position = Str("Player")

\* A line of two words without keyword has been parsed.
C15_Witness ==
  /\ parser.pc = "returned"
  /\ parser.text = <<"A", "l", " ", "A", "l">>
  /\ parser.players = << [name |-> <<"A", "l", " ", "A", "l">>, position |-> Str("Player"),
                          jersey_number |-> JsNull, team_id |-> JsNull] >>

\* ============================================================ the Dashboard
\* src/src/components/Dashboard.jsx with the PlayerForm (src/unnamed/part_001)
\* and the BulkImport dialog (src/src/components/BulkImport.jsx) it renders,
\* mounted as NewDashboard mounts it: with the onSuccess and onError callbacks
\* of the parent, so that showSuccess and showError hand the message to the
\* parent (dashboard.notice is the message the parent holds).  A call of an
\* async handler under way is an entry of dashboard.calls, suspended at the
\* await its pc names.  The dialog is a fixed overlay over the whole page:
\* while it is shown the user reaches nothing but the dialog.  The team list
\* the form loads for its select box is not part of the model.

\* The number of calls of async handlers of the Dashboard under way at once.
MaxCalls == 2

\* A string kept as its characters.
Text(c) == [t |-> "text", c |-> c]

Numerals == <<"0", "1", "2", "3", "4", "5", "6", "7", "8", "9">>

\* parseInt of a one-digit string; of a number, the number.
ParseInt(v) ==
  IF v.t = "num" THEN v ELSE Num((CHOOSE k \in 1..Len(Numerals) : Numerals[k] = v.s) - 1)

\* The rows the server's player list is made of.
PlayerRows ==
  << [id |-> 1, player_name |-> <<"S", "a", "m">>, position |-> Text(<<"B", "o", "w", "l", "e", "r">>),
      jersey_number |-> Num(0), team_id |-> Num(2)] >>

\* useState(10): the page size the Dashboard starts with.
DefaultPageSize == 10

\* The rows of a roster longer than a page.
PageRows ==
  [k \in 1..(DefaultPageSize + 1) |->
     [id |-> k, player_name |-> IF k % 2 = 1 THEN <<"S", "a", "m">> ELSE <<"A", "l">>,
      position |-> Text(<<"B", "o", "w", "l", "e", "r">>),
      jersey_number |-> Num(0), team_id |-> Num(2)]]
PageLists ==
  { SubSeq(PageRows, 1, n) : n \in {0, 6, DefaultPageSize, DefaultPageSize + 1} }

\* What GET /players can deliver: a roster of up to one row where the form
\* and the dialogs are looked at, rosters longer than a page where the
\* pagination is.
PlayerLists ==
  IF pager.mounted THEN PageLists
  ELSE { SubSeq(PlayerRows, 1, n) : n \in 0..Len(PlayerRows) }

\* What the user types into the form and into the import dialog.
NameInputs == { <<" ">>, <<" ", "A", "l", " ">> }
PositionInputs == { <<"B", "a", "t", " ">> }
JerseyInputs == { Str("0") }
TeamInputs == { Str("2") }
ImportTexts ==
  { << >>,
    <<"\n">>,
    <<"A", "l">>,
    <<"b", "a", "t", "s", "m", "a", "n">>,
    <<"S", "a", "m", " ", "B", "o", "w", "l", "e", "r", "\n", "A", "l">> }

\* The variables of the runner alone.
runnerVars == <<players, onProgress, pc, i, results, waited>>

\* ---------------------------------------------------------------- requests
\* A number in a template string: its decimal digits.
RECURSIVE Decimal(_)
Decimal(n) ==
  IF n < 10 THEN Numerals[n + 1] ELSE Decimal(n \div 10) \o Numerals[(n % 10) + 1]

PlayerUrl(id) == "/players/" \o Decimal(id)

\* A request of call c of the Dashboard, through the request interceptor.
ApiRequest(c, method, url, data) ==
  [call |-> c, method |-> method, url |-> url, data |-> data,
   authorization |-> RequestInterceptor(localStorage)]

\* playersAPI.getAll, create, update and delete.
GetAll(c) == ApiRequest(c, "GET", "/players", JsNull)
Create(c, data) == ApiRequest(c, "POST", "/players", data)
Update(c, id, data) == ApiRequest(c, "PUT", PlayerUrl(id), data)
Delete(c, id) == ApiRequest(c, "DELETE", PlayerUrl(id), JsNull)

\* The requests in flight of the Dashboard's call c.
RequestsOfCall(c) == { req \in network : "call" \in DOMAIN req /\ req.call = c }

\* ------------------------------------------------------- component states
Calls == 1..MaxCalls
NoCall == [handler |-> "", pc |-> "free"]
NoNotice == [kind |-> "", message |-> ""]

\* The Dashboard as first rendered, before its mount effect.
NewDashboard ==
  [mounted |-> TRUE, players |-> << >>, loading |-> TRUE, formLoading |-> FALSE,
   showForm |-> FALSE, showBulkImport |-> FALSE, editingPlayer |-> JsNull,
   notice |-> NoNotice, calls |-> [c \in Calls |-> NoCall]]

NewPlayerForm ==
  [mounted |-> TRUE, playerName |-> << >>, position |-> << >>,
   jerseyNumber |-> Str(""), teamId |-> Str("")]

NewBulkImport ==
  [mounted |-> TRUE, playerText |-> << >>, importing |-> FALSE, progress |-> JsNull,
   results |-> JsNull, pc |-> "idle"]

\* showSuccess and showError: the parent's handleSuccess and handleError.
showSuccess(d, message) == [d EXCEPT !.notice = [kind |-> "success", message |-> message]]
showError(d, message) == [d EXCEPT !.notice = [kind |-> "error", message |-> message]]

\* The slot the next call of a handler takes.
FreeCalls(d) == { c \in Calls : d.calls[c].pc = "free" }
NextCall(d) == CHOOSE c \in FreeCalls(d) : \A b \in FreeCalls(d) : c <= b

\* Call c of a handler is suspended at an await; call c has returned.
Called(d, c, handler, at) == [d EXCEPT !.calls[c] = [handler |-> handler, pc |-> at]]
Returned(d, c) == [d EXCEPT !.calls[c] = NoCall]

\* The populate effect of the form: it runs when the player prop changes and
\* copies the player's fields only when there is a player.
Populate(f, player) ==
  IF player = JsNull THEN f
  ELSE [f EXCEPT !.playerName = player.player_name,
                 !.position = IF player.position = JsNull THEN << >> ELSE player.position.c,
                 !.jerseyNumber = Or(player.jersey_number, Str("")),
                 !.teamId = Or(player.team_id, Str(""))]

\* The object PlayerForm.handleSubmit hands to onSubmit.
FormData(f) ==
  [player_name   |-> Trim(f.playerName),
   position      |-> IF Trim(f.position) = << >> THEN JsNull ELSE Text(Trim(f.position)),
   jersey_number |-> IF Truthy(f.jerseyNumber) THEN ParseInt(f.jerseyNumber) ELSE JsNull,
   team_id       |-> IF Truthy(f.teamId) THEN ParseInt(f.teamId) ELSE JsNull]

\* loadPlayers up to its await: setLoading(true) and the list request of call c.
LoadPlayers(d, c) ==
  /\ dashboard' = [d EXCEPT !.loading = TRUE]
  /\ network' = network \cup { GetAll(c) }

\* ------------------------------------------------------------ the actions
DashInit ==
  /\ InitRuns({})
  /\ parser = NoParser
  /\ bulkImport = Unmounted
  /\ dashboard = Unmounted
  /\ playerForm = Unmounted
  /\ app = Unmounted
  /\ listLog = NoListLog
  /\ pager = Unmounted

\* The Dashboard is mounted: useEffect(() => { loadPlayers(); }, []).
DashboardMounts ==
  /\ ~dashboard.mounted
  /\ LoadPlayers(Called(NewDashboard, 1, "loadPlayers", "getAll"), 1)
  /\ UNCHANGED <<runnerVars, localStorage, location, trace, parser, bulkImport, playerForm>>

\* handleAddNew.  A form already shown stays mounted and keeps its fields.
handleAddNew ==
  /\ dashboard.mounted /\ ~dashboard.showBulkImport
  /\ dashboard' = [dashboard EXCEPT !.editingPlayer = JsNull, !.showForm = TRUE]
  /\ playerForm' = IF playerForm.mounted THEN playerForm ELSE NewPlayerForm
  /\ UNCHANGED <<runVars, parser, bulkImport>>

\* handleEdit(player) for a row of the displayed list.  The populate effect
\* runs for a new player object; the row clicked again may be the same object
\* (no effect) or an equal row of a later list response (effect).
handleEdit ==
  /\ dashboard.mounted /\ ~dashboard.showBulkImport
  /\ \E k \in 1..Len(dashboard.players) :
       LET player == dashboard.players[k] IN
       /\ dashboard' = [dashboard EXCEPT !.editingPlayer = player, !.showForm = TRUE]
       /\ \/ playerForm' = Populate(IF playerForm.mounted THEN playerForm ELSE NewPlayerForm, player)
          \/ /\ playerForm.mounted
             /\ dashboard.editingPlayer = player
             /\ playerForm' = playerForm
  /\ UNCHANGED <<runVars, parser, bulkImport>>

\* handleCancelForm, from the form's Cancel button (disabled while isLoading).
handleCancelForm ==
  /\ dashboard.mounted /\ ~dashboard.showBulkImport
  /\ dashboard.showForm /\ ~dashboard.formLoading
  /\ dashboard' = [dashboard EXCEPT !.showForm = FALSE, !.editingPlayer = JsNull]
  /\ playerForm' = Unmounted
  /\ UNCHANGED <<runVars, parser, bulkImport>>

\* The onChange handlers of the form's inputs (disabled while isLoading).
FormChange ==
  /\ playerForm.mounted /\ ~dashboard.showBulkImport /\ ~dashboard.formLoading
  /\ \/ \E v \in NameInputs : playerForm' = [playerForm EXCEPT !.playerName = v]
     \/ \E v \in PositionInputs : playerForm' = [playerForm EXCEPT !.position = v]
     \/ \E v \in JerseyInputs : playerForm' = [playerForm EXCEPT !.jerseyNumber = v]
     \/ \E v \in TeamInputs : playerForm' = [playerForm EXCEPT !.teamId = v]
  /\ UNCHANGED <<runVars, parser, bulkImport, dashboard>>

\* handleFormSubmit(playerData) up to its await: setFormLoading(true), then
\* the update request when a player is being edited, else the create request.
handleFormSubmit(playerData) ==
  /\ FreeCalls(dashboard) # {}
  /\ LET c == NextCall(dashboard)
         req == IF dashboard.editingPlayer # JsNull
                THEN Update(c, dashboard.editingPlayer.id, playerData)
                ELSE Create(c, playerData) IN
     /\ dashboard' = Called([dashboard EXCEPT !.formLoading = TRUE], c, "handleFormSubmit", "mutate")
     /\ network' = network \cup { req }
  /\ UNCHANGED <<runnerVars, localStorage, location, trace, parser, bulkImport, playerForm>>

\* PlayerForm.handleSubmit (the submit button is disabled while isLoading):
\* nothing without a name, otherwise onSubmit = handleFormSubmit.
handleSubmit ==
  /\ playerForm.mounted /\ ~dashboard.showBulkImport /\ ~dashboard.formLoading
  /\ Trim(playerForm.playerName) # << >>
  /\ handleFormSubmit(FormData(playerForm))

\* handleDelete(player) for a row of the displayed list, confirmed by the
\* user, up to its await.
handleDelete ==
  /\ dashboard.mounted /\ ~dashboard.showBulkImport
  /\ FreeCalls(dashboard) # {}
  /\ \E k \in 1..Len(dashboard.players) :
       LET c == NextCall(dashboard) IN
       /\ dashboard' = Called(dashboard, c, "handleDelete", "mutate")
       /\ network' = network \cup { Delete(c, dashboard.players[k].id) }
  /\ UNCHANGED <<runnerVars, localStorage, location, trace, parser, bulkImport, playerForm>>

SuccessMessage(call, req) ==
  IF call.handler = "handleDelete" THEN "Player deleted successfully!"
  ELSE IF req.method = "PUT" THEN "Player updated successfully!"
  ELSE "Player added successfully!"

\* err.response?.data?.message || 'Failed to ...'
FailureMessage(call, o) ==
  IF o.status # 0 /\ Truthy(o.dataMessage) THEN o.dataMessage.s
  ELSE IF call.handler = "handleDelete" THEN "Failed to delete player"
  ELSE "Failed to save player"

\* What the caller of loadPlayers does once it has returned.
AfterLoad(d, c) ==
  IF d.calls[c].handler = "handleFormSubmit"
  THEN [d EXCEPT !.showForm = FALSE, !.editingPlayer = JsNull, !.formLoading = FALSE]
  ELSE IF d.calls[c].handler = "handleBulkImportSuccess"
  THEN [d EXCEPT !.showBulkImport = FALSE]
  ELSE d

\* Mutant: the list is not loaded again after a mutation.
MutationSucceedsNoReload(c, req, o) ==
  /\ dashboard' = Returned(AfterLoad(showSuccess(dashboard, SuccessMessage(dashboard.calls[c], req)), c), c)
  /\ playerForm' = IF dashboard.calls[c].handler = "handleFormSubmit" THEN Unmounted ELSE playerForm
  /\ network' = network \ {req}
  /\ UNCHANGED <<localStorage, location>>

\* The mutation of call c succeeded: showSuccess, then loadPlayers() up to
\* its await.
MutationSucceeds(c, req, o) ==
  /\ dashboard' = [showSuccess(Called(dashboard, c, dashboard.calls[c].handler, "getAll"),
                               SuccessMessage(dashboard.calls[c], req))
                     EXCEPT !.loading = TRUE]
  /\ network' = (network \ {req}) \cup { GetAll(c) }
  /\ UNCHANGED <<localStorage, location, playerForm>>

\* The mutation of call c failed: the response interceptor runs, the catch
\* block shows the error, and handleFormSubmit's finally resets formLoading.
MutationFails(c, req, o) ==
  /\ dashboard' = Returned(showError(
       IF dashboard.calls[c].handler = "handleFormSubmit"
       THEN [dashboard EXCEPT !.formLoading = FALSE]
       ELSE dashboard, FailureMessage(dashboard.calls[c], o)), c)
  /\ network' = network \ {req}
  /\ localStorage' = ResponseInterceptor(o, localStorage, location)[1]
  /\ location' = ResponseInterceptor(o, localStorage, location)[2]
  /\ UNCHANGED playerForm

\* The create, update or delete request of a call is answered.
MutationSettles ==
  /\ dashboard.mounted
  /\ \E c \in Calls :
       /\ dashboard.calls[c].pc = "mutate"
       /\ \E req \in RequestsOfCall(c), o \in Outcomes :
            IF o.ok THEN MutationSucceeds(c, req, o) ELSE MutationFails(c, req, o)
  /\ UNCHANGED <<runnerVars, trace, parser, bulkImport>>

\* The list request of call c is answered with o: setPlayers or showError,
\* then setLoading(false), then the rest of the handler that awaited
\* loadPlayers.
ListSettlesWith(c, o) ==
  /\ dashboard.mounted
  /\ dashboard.calls[c].pc = "getAll"
  /\ \E req \in RequestsOfCall(c) :
       /\ network' = network \ {req}
       /\ IF o.ok
          THEN /\ \E list \in PlayerLists :
                    dashboard' = Returned(AfterLoad([dashboard EXCEPT !.players = list,
                                                                      !.loading = FALSE], c), c)
               /\ UNCHANGED <<localStorage, location>>
          ELSE /\ dashboard' = Returned(AfterLoad([showError(dashboard, "Failed to load players")
                                                     EXCEPT !.loading = FALSE], c), c)
               /\ localStorage' = ResponseInterceptor(o, localStorage, location)[1]
               /\ location' = ResponseInterceptor(o, localStorage, location)[2]
       /\ playerForm' = IF dashboard.calls[c].handler = "handleFormSubmit"
                        THEN Unmounted ELSE playerForm
       /\ bulkImport' = IF dashboard.calls[c].handler = "handleBulkImportSuccess"
                        THEN Unmounted ELSE bulkImport
  /\ UNCHANGED <<runnerVars, trace, parser>>

\* A list request in flight is answered.
ListSettles == \E c \in Calls, o \in Outcomes : ListSettlesWith(c, o)

\* The Bulk Import button: setShowBulkImport(true).
OpenBulkImport ==
  /\ dashboard.mounted /\ ~dashboard.showBulkImport
  /\ dashboard' = [dashboard EXCEPT !.showBulkImport = TRUE]
  /\ bulkImport' = NewBulkImport
  /\ UNCHANGED <<runVars, parser, playerForm>>

\* The textarea's onChange (shown while there are no results, disabled while
\* importing).
setPlayerText ==
  /\ bulkImport.mounted /\ ~bulkImport.importing /\ bulkImport.results = JsNull
  /\ \E t \in ImportTexts : bulkImport' = [bulkImport EXCEPT !.playerText = t]
  /\ UNCHANGED <<runVars, parser, dashboard, playerForm>>

\* Mutant: the dialog closes whether or not an import is running.
handleCloseWhileImporting ==
  /\ bulkImport.mounted
  /\ dashboard' = [dashboard EXCEPT !.showBulkImport = FALSE]
  /\ bulkImport' = Unmounted
  /\ UNCHANGED <<runVars, parser, playerForm>>

\* BulkImport.handleClose (its buttons are disabled while importing):
\* onClose = () => setShowBulkImport(false).
handleClose ==
  /\ bulkImport.mounted /\ ~bulkImport.importing
  /\ dashboard' = [dashboard EXCEPT !.showBulkImport = FALSE]
  /\ bulkImport' = Unmounted
  /\ UNCHANGED <<runVars, parser, playerForm>>

\* The records handleImport hands to the runner.
Imported(text) == parsePlayerText(text)

\* BulkImport.handleImport up to its await (the Import button is disabled
\* while importing or without text): parsePlayerText, then bulkImportPlayers
\* with setProgress as the callback.
handleImport ==
  /\ bulkImport.mounted /\ ~bulkImport.importing /\ bulkImport.results = JsNull
  /\ Trim(bulkImport.playerText) # << >>
  /\ \E r \in Runs :
       /\ pc[r] = "idle"
       /\ IF Imported(bulkImport.playerText) = << >>
          THEN /\ bulkImport' = [bulkImport EXCEPT !.importing = FALSE, !.progress = JsNull]
               /\ UNCHANGED runnerVars
          ELSE /\ bulkImport' = [bulkImport EXCEPT !.importing = TRUE, !.pc = "await"]
               /\ players' = [players EXCEPT ![r] = Imported(bulkImport.playerText)]
               /\ onProgress' = [onProgress EXCEPT ![r] = TRUE]
               /\ pc' = [pc EXCEPT ![r] = "loop"]
               /\ results' = [results EXCEPT ![r] = NewResults(Imported(bulkImport.playerText))]
               /\ UNCHANGED <<i, waited>>
  /\ UNCHANGED <<network, localStorage, location, trace, parser, dashboard, playerForm>>

\* One iteration of the run started by the dialog: the callback is
\* setProgress of the dialog that started the run (without effect once that
\* dialog is gone).
ImportIterates(r) ==
  /\ Iterate(r)
  /\ bulkImport' = IF bulkImport.mounted /\ bulkImport.pc = "await"
                   THEN [bulkImport EXCEPT !.progress = ProgressInfo(r)] ELSE bulkImport
  /\ UNCHANGED <<parser, dashboard, playerForm>>

\* The run has returned to handleImport; its frame and its log are gone.
RunEnds(r) ==
  /\ players' = [players EXCEPT ![r] = << >>]
  /\ onProgress' = [onProgress EXCEPT ![r] = FALSE]
  /\ pc' = [pc EXCEPT ![r] = "idle"]
  /\ i' = [i EXCEPT ![r] = 0]
  /\ results' = [results EXCEPT ![r] = NewResults(<< >>)]
  /\ waited' = [waited EXCEPT ![r] = 0]
  /\ trace' = << >>

\* Mutant: the list is loaded again after every run.
ReloadsAlways(importResults) == TRUE

\* importResults.success.length > 0
ReloadsAfterRun(importResults) == Len(importResults.success) > 0

\* handleImport after its await: setResults; with at least one created
\* record onSuccess = handleBulkImportSuccess up to its await (showSuccess,
\* loadPlayers()); finally importing and progress are reset (without effect
\* once the dialog that started the run is gone).
ImportResumes(r) ==
  /\ dashboard.mounted /\ pc[r] = "done"
  /\ bulkImport' = IF bulkImport.mounted /\ bulkImport.pc = "await"
                   THEN [bulkImport EXCEPT !.results = results[r], !.importing = FALSE,
                                           !.progress = JsNull, !.pc = "idle"]
                   ELSE bulkImport
  /\ IF ReloadsAfterRun(results[r])
     THEN /\ FreeCalls(dashboard) # {}
          /\ LoadPlayers(Called(showSuccess(dashboard, "Successfully imported player(s)!"),
                                NextCall(dashboard), "handleBulkImportSuccess", "getAll"),
                         NextCall(dashboard))
     ELSE UNCHANGED <<dashboard, network>>
  /\ RunEnds(r)
  /\ UNCHANGED <<localStorage, location, parser, playerForm>>

\* The Dashboard with its form, the import dialog left closed.
DashNext ==
  \/ DashboardMounts /\ UNCHANGED <<app, listLog, pager>>
  \/ handleAddNew /\ UNCHANGED <<app, listLog, pager>>
  \/ handleEdit /\ UNCHANGED <<app, listLog, pager>>
  \/ handleCancelForm /\ UNCHANGED <<app, listLog, pager>>
  \/ FormChange /\ UNCHANGED <<app, listLog, pager>>
  \/ handleSubmit /\ UNCHANGED <<app, listLog, pager>>
  \/ handleDelete /\ UNCHANGED <<app, listLog, pager>>
  \/ MutationSettles /\ UNCHANGED <<app, listLog, pager>>
  \/ ListSettles /\ UNCHANGED <<app, listLog, pager>>

DashSpec == DashInit /\ [][DashNext]_vars

\* The Dashboard with the import dialog, the form left closed.
ImportNext ==
  \/ DashboardMounts /\ UNCHANGED <<app, listLog, pager>>
  \/ ListSettles /\ UNCHANGED <<app, listLog, pager>>
  \/ OpenBulkImport /\ UNCHANGED <<app, listLog, pager>>
  \/ setPlayerText /\ UNCHANGED <<app, listLog, pager>>
  \/ handleClose /\ UNCHANGED <<app, listLog, pager>>
  \/ handleImport /\ UNCHANGED <<app, listLog, pager>>
  \/ \E r \in Runs : ImportIterates(r) /\ UNCHANGED <<app, listLog, pager>>
  \/ \E r \in Runs : CreateSettles(r) /\ UNCHANGED uiVars
  \/ Tick /\ UNCHANGED uiVars
  \/ \E r \in Runs : TimerFires(r) /\ UNCHANGED uiVars
  \/ \E r \in Runs : Return(r) /\ UNCHANGED uiVars
  \/ \E r \in Runs : ImportResumes(r) /\ UNCHANGED <<app, listLog, pager>>

ImportSpec == DashInit /\ [][ImportNext]_vars

\* --------------------------------------------------- claims on the views
ListRequests(reqs) == { req \in reqs : req.method = "GET" /\ req.url = "/players" }
CreateRequests(reqs) == { req \in reqs : req.method = "POST" /\ req.url = "/players" }

\* C16 as stated: every create-player request the client issues, from the
\* player form or from the import pipeline (parsePlayerText, then
\* bulkImportPlayers), carries a player_name that is non-empty after trimming.
C16_CreateCarriesName ==
  \A req \in CreateRequests(network) : Trim(req.data.player_name) # << >>

\* C17: every request issued through the API client while a token is held in
\* local storage carries Authorization: Bearer <that token>, and a request
\* issued while no token is stored carries no Authorization header.
C17_BearerTokenAttached ==
  [][\A req \in network' \ network :
       IF localStorage.token # ""
       THEN req.authorization = "Bearer " \o localStorage.token
       ELSE req.authorization = ""]_vars

\* A request issued with the token is still in flight beside one issued
\* after the token was removed.
C17_Witness ==
  /\ localStorage.token = ""
  /\ \E a, b \in network : a.authorization = "Bearer tok" /\ b.authorization = ""

\* C18: whenever a response with status 401 or 403 is received, token and
\* user are removed from local storage and the browser is sent to /login,
\* and the error is still delivered to the caller as a failure (the record
\* is in failed); responses with any other status leave local storage and
\* the location unchanged.
C18_UnauthorizedEndsSession ==
  LET unauthorized == { p \in 1..Len(trace) :
                          trace[p].type = "response" /\ trace[p].arg.status \in {401, 403} } IN
  /\ \A p \in unauthorized :
       /\ localStorage = [token |-> "", user |-> ""]
       /\ location = "/login"
       /\ \E f \in 1..Len(results[trace[p].run].failed) :
            /\ results[trace[p].run].failed[f].name = players[trace[p].run][trace[p].idx].name
            /\ f = Cardinality({ k \in Failed(trace[p].run) : k <= trace[p].idx })
  /\ unauthorized = {} =>
       /\ localStorage = [token |-> "tok", user |-> "admin"]
       /\ location = "/dashboard"

\* A run received a 400 and then a 403.
C18_Witness ==
  /\ N(1) = 2 /\ Settled(1) = {1, 2}
  /\ OutcomeOf(1, 1).status = 400 /\ OutcomeOf(1, 2).status = 403
  /\ localStorage.token = "" /\ location = "/login"

\* C19: after every successful player create, update or delete issued from
\* the Dashboard the players list is re-fetched from the server (in the step
\* that shows the success message); after a failed mutation no re-fetch is
\* issued and the form stays open with the same editing target.
C19_ReloadAfterMutationOnly ==
  [][\A c \in Calls :
       (dashboard.mounted /\ dashboard.calls[c].pc = "mutate" /\ dashboard'.calls[c].pc # "mutate") =>
         \/ /\ dashboard'.notice.kind = "success"
            /\ \E req \in ListRequests(network' \ network) : req.call = c
         \/ /\ dashboard'.notice.kind = "error"
            /\ ListRequests(network' \ network) = {}
            /\ dashboard'.showForm = dashboard.showForm
            /\ dashboard'.editingPlayer = dashboard.editingPlayer
            /\ playerForm'.mounted = playerForm.mounted]_vars

\* An update has succeeded and its list request is in flight.
C19_Witness ==
  /\ dashboard.mounted
  /\ \E c \in Calls :
       /\ dashboard.calls[c] = [handler |-> "handleFormSubmit", pc |-> "getAll"]
       /\ dashboard.notice = [kind |-> "success", message |-> "Player updated successfully!"]
       /\ ListRequests(network) = { GetAll(c) }

\* The step in which handleImport takes back the result of a run over at
\* least one record.
RunCompletes(r) == pc[r] = "done" /\ pc'[r] = "idle" /\ N(r) > 0

\* C20 as stated: after every bulk import run that attempted at least one
\* record has completed, the view re-fetches the players list.
C20_ReloadAfterEveryRun ==
  [][\A r \in Runs : RunCompletes(r) => ListRequests(network' \ network) # {}]_vars

\* C20: after a bulk import run in which at least one record was created
\* has completed, the view re-fetches the players list; after a run in which
\* every record failed it does not.
C20_ReloadAfterRunWithSuccess ==
  [][\A r \in Runs : RunCompletes(r) =>
       (ListRequests(network' \ network) # {} <=> Succeeded(r) # {})]_vars

\* The dialog shows the result of a run with one record created and one
\* failed, and the list request of handleBulkImportSuccess is in flight.
C20_Witness ==
  /\ bulkImport.mounted /\ bulkImport.results # JsNull
  /\ Len(bulkImport.results.success) = 1 /\ Len(bulkImport.results.failed) = 1
  /\ \E c \in Calls :
       /\ dashboard.calls[c] = [handler |-> "handleBulkImportSuccess", pc |-> "getAll"]
       /\ GetAll(c) \in network

\* ================================================================== the App
\* src/src/App.jsx: the authentication state and the routes.  location is
\* the path the router matches.  A page load (the first one, one from the
\* address bar, or the one window.location.href = '/login' starts) mounts
\* the App anew.  The Login component calls onLogin with the user it logged
\* in; the Navbar's handleLogout (src/unnamed/part_005) calls onLogout.

Paths == { "/login", "/dashboard", "/", "/teams" }
Users == { Str("admin"), Str("scorer") }

\* What local storage can hold when a page loads.
Storages ==
  { [token |-> "", user |-> ""], [token |-> "tok", user |-> ""],
    [token |-> "tok", user |-> "admin"], [token |-> "tok", user |-> "scorer"] }

\* What the server (or the network) can answer to GET /auth/verify and to
\* POST /auth/logout: data.success and data.user of a response, or an error.
AuthOutcomes ==
  { [ok |-> TRUE, status |-> 200, success |-> TRUE, user |-> u] : u \in Users }
  \cup
  { [ok |-> TRUE,  status |-> 200, success |-> FALSE, user |-> JsNull],
    [ok |-> FALSE, status |-> 401, success |-> FALSE, user |-> JsNull],
    [ok |-> FALSE, status |-> 403, success |-> FALSE, user |-> JsNull],
    [ok |-> FALSE, status |-> 0,   success |-> FALSE, user |-> JsNull] }

NoResponse == [ok |-> FALSE, status |-> 0, success |-> FALSE, user |-> JsNull]

\* The App as first rendered: useState(null), useState(true).
NewApp ==
  [mounted |-> TRUE, user |-> JsNull, loading |-> TRUE, pc |-> "idle",
   response |-> NoResponse, unloading |-> FALSE]

Component(name) == [component |-> name, to |-> ""]
Navigate(to) == [component |-> "Navigate", to |-> to]

\* Mutant: the dashboard route does not look at the user.
ElementUnguarded(a, path) ==
  IF a.loading THEN Component("Spinner")
  ELSE IF path = "/login"
       THEN (IF Truthy(a.user) THEN Navigate("/dashboard") ELSE Component("Login"))
  ELSE IF path = "/dashboard" THEN Component("NewDashboard")
  ELSE IF path = "/"
       THEN Navigate(IF Truthy(a.user) THEN "/dashboard" ELSE "/login")
  ELSE Navigate("/")

\* What App renders at a path: the spinner while loading, else the element
\* of the route that matches.
Element(a, path) ==
  IF a.loading THEN Component("Spinner")
  ELSE IF path = "/login"
       THEN (IF Truthy(a.user) THEN Navigate("/dashboard") ELSE Component("Login"))
  ELSE IF path = "/dashboard"
       THEN (IF Truthy(a.user) THEN Component("NewDashboard") ELSE Navigate("/login"))
  ELSE IF path = "/"
       THEN Navigate(IF Truthy(a.user) THEN "/dashboard" ELSE "/login")
  ELSE Navigate("/")

AuthRequest(method, url) ==
  [call |-> 0, method |-> method, url |-> url, data |-> JsNull,
   authorization |-> RequestInterceptor(localStorage)]

\* No run, no form, no dialog; some session or none in local storage.
AppInit ==
  /\ players = [r \in Runs |-> << >>]
  /\ onProgress = [r \in Runs |-> FALSE]
  /\ pc = [r \in Runs |-> "idle"]
  /\ i = [r \in Runs |-> 0]
  /\ results = [r \in Runs |-> NewResults(<< >>)]
  /\ waited = [r \in Runs |-> 0]
  /\ network = {}
  /\ localStorage \in Storages
  /\ location \in Paths
  /\ trace = << >>
  /\ parser = NoParser
  /\ bulkImport = Unmounted
  /\ dashboard = Unmounted
  /\ playerForm = Unmounted
  /\ app = Unmounted
  /\ listLog = NoListLog
  /\ pager = Unmounted

\* checkAuth up to its await, on a freshly mounted App.
checkAuth ==
  IF localStorage.token = "" \/ localStorage.user = ""
  THEN /\ app' = [NewApp EXCEPT !.loading = FALSE]
       /\ network' = {}
  ELSE /\ app' = [NewApp EXCEPT !.pc = "verify"]
       /\ network' = { AuthRequest("GET", "/auth/verify") }

\* The page is loaded: at the path it starts at, at a path typed into the
\* address bar, or at the path the response interceptor assigned.  The
\* requests of the page before are gone with it.
PageLoads ==
  /\ \E path \in Paths :
       /\ IF app.mounted
          THEN app.unloading => path = location
          ELSE path = location
       /\ location' = path
  /\ checkAuth
  /\ UNCHANGED <<runnerVars, localStorage, trace, parser, bulkImport, dashboard, playerForm, listLog, pager>>

\* checkAuth after its await.
VerifySettles ==
  /\ app.mounted /\ app.pc = "verify"
  /\ \E req \in network, o \in AuthOutcomes :
       /\ network' = network \ {req}
       /\ IF o.ok
          THEN /\ app' = [app EXCEPT !.user = IF o.success THEN o.user ELSE @,
                                     !.response = o, !.loading = FALSE, !.pc = "idle"]
               /\ UNCHANGED <<localStorage, location>>
          ELSE /\ app' = [app EXCEPT !.response = o, !.loading = FALSE, !.pc = "idle",
                                     !.unloading = @ \/ o.status \in {401, 403}]
               /\ localStorage' = [token |-> "", user |-> ""]
               /\ location' = ResponseInterceptor(o, localStorage, location)[2]
  /\ UNCHANGED <<runnerVars, trace, parser, bulkImport, dashboard, playerForm, listLog, pager>>

\* <Navigate to=... replace />
Navigates ==
  /\ app.mounted /\ ~app.unloading
  /\ Element(app, location).component = "Navigate"
  /\ location' = Element(app, location).to
  /\ UNCHANGED <<runnerVars, network, localStorage, trace, uiVars>>

\* Login calls onLogin(userData) = handleLogin; what it has put into local
\* storage is its own business.
handleLogin ==
  /\ app.mounted /\ ~app.unloading
  /\ Element(app, location).component = "Login"
  /\ \E userData \in Users : app' = [app EXCEPT !.user = userData]
  /\ localStorage' \in Storages
  /\ UNCHANGED <<runnerVars, network, location, trace, parser, bulkImport, dashboard, playerForm, listLog, pager>>

\* Navbar.handleLogout up to its await.
LogoutStarts ==
  /\ app.mounted /\ ~app.unloading /\ app.pc = "idle"
  /\ Element(app, location).component = "NewDashboard"
  /\ app' = [app EXCEPT !.pc = "logout"]
  /\ network' = network \cup { AuthRequest("POST", "/auth/logout") }
  /\ UNCHANGED <<runnerVars, localStorage, location, trace, parser, bulkImport, dashboard, playerForm, listLog, pager>>

\* Navbar.handleLogout after its await: the finally block clears local
\* storage, calls onLogout = handleLogout (setUser(null)) and navigates.
LogoutSettles ==
  /\ app.mounted /\ app.pc = "logout"
  /\ \E req \in network, o \in AuthOutcomes :
       /\ network' = network \ {req}
       /\ app' = [app EXCEPT !.user = JsNull, !.pc = "idle",
                             !.unloading = @ \/ (~o.ok /\ o.status \in {401, 403})]
  /\ localStorage' = [token |-> "", user |-> ""]
  /\ location' = "/login"
  /\ UNCHANGED <<runnerVars, trace, parser, bulkImport, dashboard, playerForm, listLog, pager>>

AppNext ==
  \/ PageLoads
  \/ VerifySettles
  \/ Navigates
  \/ handleLogin
  \/ LogoutStarts
  \/ LogoutSettles

AppSpec == AppInit /\ [][AppNext]_vars

\* The component a path ends at once the redirects are followed.
RECURSIVE Shown(_, _, _)
Shown(a, path, hops) ==
  LET e == Element(a, path) IN
  IF e.component = "Navigate" /\ hops > 0 THEN Shown(a, e.to, hops - 1) ELSE e.component

\* C21: the dashboard is rendered only while a user is set in the App state,
\* and the user is set only by a login or by a token verification whose
\* response reports success; while the user is null every route leads to the
\* login page, and while the initial check is still loading neither login
\* nor dashboard is rendered.
C21_DashboardOnlyForUser ==
  /\ [](app.mounted =>
          /\ \A path \in Paths :
               /\ Element(app, path).component = "NewDashboard" => app.user # JsNull
               /\ (app.user = JsNull /\ ~app.loading) =>
                    Shown(app, path, Cardinality(Paths)) = "Login"
               /\ app.loading => Element(app, path).component \notin {"Login", "NewDashboard"})
  /\ [][(app.mounted /\ app'.mounted /\ app'.user # JsNull /\ app'.user # app.user) =>
          \/ /\ ~app.loading /\ location = "/login" /\ app.pc = "idle"
          \/ /\ app.pc = "verify" /\ app'.response.ok /\ app'.response.success
             /\ app'.user = app'.response.user]_vars

\* The dashboard is rendered for a user the token verification delivered.
C21_Witness ==
  /\ app.mounted /\ app.response.success /\ app.user = Str("admin")
  /\ Element(app, location).component = "NewDashboard"

C23_NoCloseWhileImporting ==
  /\ [](bulkImport.mounted =>
          /\ (bulkImport.pc = "await" => bulkImport.importing)
          /\ (bulkImport.pc = "idle" =>
                (~bulkImport.importing /\ bulkImport.progress = JsNull)))
  /\ [][(bulkImport.mounted /\ bulkImport.importing /\ ~dashboard'.showBulkImport) =>
          \E req \in ListRequests(network) : req \notin network']_vars

\* The run of a dialog has returned with a failure: importing and progress
\* are reset while the results are shown.
C23_Witness ==
  /\ bulkImport.mounted /\ bulkImport.pc = "idle"
  /\ bulkImport.results # JsNull /\ Len(bulkImport.results.failed) > 0
  /\ ~bulkImport.importing /\ bulkImport.progress = JsNull

\* ============================================================== two runs
\* bulkImportPlayers called twice before either call has returned: two
\* frames, each with its own players, i and results, on one network and one
\* clock.
TwoRuns == {1, 2}

\* The batches of the two calls share no name.
BatchesOf ==
  [r \in TwoRuns |->
     IF r = 1
     THEN { b \in Batches : Len(b) \in {1, 2} /\ \A k \in 1..Len(b) : b[k].name # "Ravi" }
     ELSE { b \in Batches : Len(b) = 1 /\ b[1].name = "Ravi" }]

TwoInit ==
  /\ players \in [TwoRuns -> Batches]
  /\ \A r \in TwoRuns : players[r] \in BatchesOf[r]
  /\ onProgress = [r \in TwoRuns |-> r = 1]
  /\ pc = [r \in TwoRuns |-> "loop"]
  /\ i = [r \in TwoRuns |-> 0]
  /\ results = [r \in TwoRuns |-> NewResults(players[r])]
  /\ waited = [r \in TwoRuns |-> 0]
  /\ network = {}
  /\ localStorage = [token |-> "tok", user |-> "admin"]
  /\ location = "/dashboard"
  /\ trace = << >>
  /\ parser = NoParser
  /\ bulkImport = Unmounted
  /\ dashboard = Unmounted
  /\ playerForm = Unmounted
  /\ app = Unmounted
  /\ listLog = NoListLog
  /\ pager = Unmounted

TwoNext ==
  \/ \E r \in TwoRuns : Iterate(r) /\ UNCHANGED uiVars
  \/ \E r \in TwoRuns : CreateSettles(r) /\ UNCHANGED uiVars
  \/ Tick /\ UNCHANGED uiVars
  \/ \E r \in TwoRuns : TimerFires(r) /\ UNCHANGED uiVars
  \/ \E r \in TwoRuns : Return(r) /\ UNCHANGED uiVars

TwoSpec == TwoInit /\ [][TwoNext]_vars

NamesOf(batch) == { batch[k].name : k \in 1..Len(batch) }

\* C24: when two bulkImportPlayers runs are active at once and their
\* requests interleave, each run's result contains only names of its own
\* batch, counts exactly the answered records of its own batch, and
\* satisfies success.length + failed.length = its own total when the run
\* returns.
C24_ResultsPerRun ==
  \A r \in TwoRuns :
    /\ \A k \in 1..Len(results[r].success) : results[r].success[k] \in NamesOf(players[r])
    /\ \A k \in 1..Len(results[r].failed) : results[r].failed[k].name \in NamesOf(players[r])
    /\ Len(results[r].success) + Len(results[r].failed) = Cardinality(Settled(r))
    /\ results[r].total = Len(players[r])
    /\ pc[r] = "done" => Len(results[r].success) + Len(results[r].failed) = results[r].total

\* Both runs have returned, the request of the second one having been
\* issued and answered while a request of the first one was in flight.
C24_Witness ==
  /\ \A r \in TwoRuns : pc[r] = "done"
  /\ Len(results[2].success) = 1
  /\ \E a \in At("request", 1, 1), b \in At("request", 2, 1),
        c \in At("response", 2, 1), d \in At("response", 1, 1) :
       a < b /\ b < c /\ c < d

\* ===================================================== overlapping reloads
\* The Dashboard's list requests and their responses, with the log of which
\* request the displayed list answers.

\* A step that issues a list request makes it the latest one.
ListIssued ==
  LET new == ListRequests(network') \ ListRequests(network) IN
  listLog' = IF new = {} THEN listLog
             ELSE [latest |-> (CHOOSE req \in new : TRUE).call,
                   current |-> FALSE, answered |-> FALSE]

\* The list answered to call c is displayed (setPlayers); an error leaves
\* the displayed list as it is.
ListAnswered(c, o) ==
  listLog' = IF ~o.ok THEN listLog
             ELSE IF c = listLog.latest
             THEN [listLog EXCEPT !.current = TRUE, !.answered = TRUE]
             ELSE [listLog EXCEPT !.current = FALSE]

ListNext ==
  \/ DashboardMounts /\ ListIssued /\ UNCHANGED <<app, pager>>
  \/ handleDelete /\ ListIssued /\ UNCHANGED <<app, pager>>
  \/ MutationSettles /\ ListIssued /\ UNCHANGED <<app, pager>>
  \/ \E c \in Calls, o \in Outcomes : ListSettlesWith(c, o) /\ ListAnswered(c, o) /\ UNCHANGED <<app, pager>>

ListSpec == DashInit /\ [][ListNext]_vars

\* C25: once all requests triggered by Dashboard actions have settled, the
\* displayed players list is the response to the most recently issued list
\* request (when that request was answered with a list), whatever the order
\* in which overlapping list responses arrive, and the loading flag is true
\* whenever a list request is still in flight.
C25_LatestListShown ==
  dashboard.mounted =>
    /\ (network = {} /\ listLog.answered) => listLog.current
    /\ ListRequests(network) # {} => dashboard.loading

\* ======================================================= search and pages
\* Dashboard.jsx: searchQuery, currentPage and pageSize.  The Pagination
\* component calls handlePageChange with one of the pages it shows and
\* handlePageSizeChange with one of its sizes.
PageSizes == { 5, DefaultPageSize }
Queries == { << >>, <<" ">>, <<"S", "a">>, <<"s", "a", "m">>, <<"z", "z">> }

NewPager ==
  [mounted |-> TRUE, searchQuery |-> << >>, currentPage |-> 1, pageSize |-> DefaultPageSize]

\* String.prototype.toLowerCase and String.prototype.includes
Lower(str) == [k \in 1..Len(str) |-> ToLower(str[k])]
Includes(str, sub) ==
  \E k \in 0..(Len(str) - Len(sub)) : SubSeq(str, k + 1, k + Len(sub)) = sub

\* The filter's test of one row (the rows carry no team_name).
Matches(player, query) ==
  \/ Includes(Lower(player.player_name), query)
  \/ player.position # JsNull /\ Includes(Lower(player.position.c), query)

filteredPlayers(ps, searchQuery) ==
  IF Trim(searchQuery) = << >> THEN ps
  ELSE SelectSeq(ps, LAMBDA player : Matches(player, Lower(searchQuery)))

\* filteredPlayers.slice(startIndex, endIndex)
paginatedPlayers(filtered, currentPage, pageSize) ==
  LET startIndex == (currentPage - 1) * pageSize
      endIndex == startIndex + pageSize IN
  IF startIndex >= Len(filtered) THEN << >>
  ELSE SubSeq(filtered, startIndex + 1, IF endIndex > Len(filtered) THEN Len(filtered) ELSE endIndex)

\* The pages Pagination offers for totalItems rows.
TotalPages(totalItems, pageSize) == (totalItems + pageSize - 1) \div pageSize

Filtered == filteredPlayers(dashboard.players, pager.searchQuery)

\* {!loading && filteredPlayers.length > 0 && <Pagination ... />}
PaginationShown == dashboard.mounted /\ pager.mounted /\ ~dashboard.loading /\ Len(Filtered) > 0

\* handleSearch: the search input's onChange.
handleSearch ==
  /\ dashboard.mounted /\ pager.mounted
  /\ \E query \in Queries \ {pager.searchQuery} :
       pager' = [pager EXCEPT !.searchQuery = query, !.currentPage = 1]
  /\ UNCHANGED <<runVars, parser, bulkImport, dashboard, playerForm, app, listLog>>

\* The clear-search button: setSearchQuery('').
ClearSearch ==
  /\ dashboard.mounted /\ pager.mounted
  /\ pager.searchQuery # << >>
  /\ pager' = [pager EXCEPT !.searchQuery = << >>]
  /\ UNCHANGED <<runVars, parser, bulkImport, dashboard, playerForm, app, listLog>>

\* handlePageChange(page), page one of the pages on offer.
handlePageChange ==
  /\ PaginationShown
  /\ \E page \in 1..TotalPages(Len(Filtered), pager.pageSize) :
       pager' = [pager EXCEPT !.currentPage = page]
  /\ UNCHANGED <<runVars, parser, bulkImport, dashboard, playerForm, app, listLog>>

\* handlePageSizeChange(newPageSize)
handlePageSizeChange ==
  /\ PaginationShown
  /\ \E newPageSize \in PageSizes :
       pager' = [pager EXCEPT !.pageSize = newPageSize, !.currentPage = 1]
  /\ UNCHANGED <<runVars, parser, bulkImport, dashboard, playerForm, app, listLog>>

\* The Dashboard with its search box and its pagination, one delete at a
\* time.
PageNext ==
  \/ DashboardMounts /\ pager' = NewPager /\ UNCHANGED <<app, listLog>>
  \/ handleSearch
  \/ ClearSearch
  \/ handlePageChange
  \/ handlePageSizeChange
  \/ dashboard.mounted /\ FreeCalls(dashboard) = Calls /\ handleDelete /\ UNCHANGED <<app, listLog, pager>>
  \/ MutationSettles /\ UNCHANGED <<app, listLog, pager>>
  \/ ListSettles /\ UNCHANGED <<app, listLog, pager>>

PageSpec == DashInit /\ [][PageNext]_vars

\* C26: after any sequence of search input, page change to a valid page,
\* page-size change, delete and reload, whenever the filtered list is
\* non-empty the current page lies in 1..ceil(filtered count / page size),
\* so the displayed page of players is non-empty.
C26_PageInRange ==
  (dashboard.mounted /\ pager.mounted /\ Len(Filtered) > 0) =>
    /\ pager.currentPage \in 1..TotalPages(Len(Filtered), pager.pageSize)
    /\ paginatedPlayers(Filtered, pager.currentPage, pager.pageSize) # << >>

\* What the form's fields can hold without any row having been copied into
\* them: nothing, or what the user typed.
TypedOrEmpty(f) ==
  /\ f.playerName \in NameInputs \cup { << >> }
  /\ f.position \in PositionInputs \cup { << >> }
  /\ f.jerseyNumber \in JerseyInputs \cup { Str("") }
  /\ f.teamId \in TeamInputs \cup { Str("") }

\* C27: for every sequence of Edit, Add New Player, Cancel and submit
\* actions, whenever the form is shown in add mode (editingPlayer is null)
\* its fields are empty until the user types; in particular no create
\* request carries the name of a row that was being edited.
C27_AddFormStartsEmpty ==
  /\ (dashboard.mounted /\ playerForm.mounted /\ dashboard.editingPlayer = JsNull) =>
       TypedOrEmpty(playerForm)
  /\ \A req \in CreateRequests(network) :
       req.data.player_name \in { Trim(v) : v \in NameInputs }

\* C28: when a bulk import run finishes with at least one failed item, the
\* dialog keeps showing the failed list until the user presses Done: while
\* results with failures are displayed, the dialog goes away only by
\* handleClose (a step without any response), never by the Dashboard on its
\* own.
C28_FailedListStaysUntilDone ==
  [][(/\ bulkImport.mounted
      /\ bulkImport.results # JsNull
      /\ Len(bulkImport.results.failed) > 0
      /\ ~bulkImport'.mounted) => network' = network]_vars

\* The positions of the trace holding a response with status 401 or 403.
Unauthorized ==
  { p \in 1..Len(trace) : trace[p].type = "response" /\ trace[p].arg.status \in {401, 403} }

\* C29: if a create request during a bulk import is answered with 401 or 403,
\* the run is not stopped: that record is added to failed, every remaining
\* record is still submitted (the run returns only after a request for each
\* of them), and each of those later requests is sent without an
\* Authorization header.
C29_RunGoesOnAfterUnauthorized ==
  \A p \in Unauthorized :
    LET r == trace[p].run
        k == trace[p].idx IN
    /\ \E f \in 1..Len(results[r].failed) : results[r].failed[f].name = players[r][k].name
    /\ Len(results[r].success) + Len(results[r].failed) >= k
    /\ pc[r] # "rejected"
    /\ pc[r] = "done" => \A j \in (k + 1)..N(r) : \E q \in At("request", r, j) : q > p
    /\ \A q \in (p + 1)..Len(trace) :
         trace[q].type = "request" => trace[q].arg.authorization = ""

\* A run of three records has returned; the first request was answered with
\* 401, and the two requests after it went out without a header.
C29_Witness ==
  /\ pc[1] = "done" /\ N(1) = 3
  /\ \E p \in Unauthorized : trace[p].idx = 1 /\ trace[p].arg.status = 401
  /\ \A j \in {2, 3} : \E q \in At("request", 1, j) : trace[q].arg.authorization = ""

\* ================================================= a throwing callback
\* bulkImportPlayers with a progress callback that may throw.  The call of
\* onProgress stands inside the try block of its iteration.

\* The errors a callback throws: Error objects (no response property).
Thrown ==
  { [ok |-> FALSE, status |-> 0, dataMessage |-> JsNull, message |-> "Progress failed"] }

ThrowEvent(r, idx, error) == [type |-> "throw", run |-> r, idx |-> idx, arg |-> error]

ThrowInit ==
  /\ InitRuns({1})
  /\ \A r \in Runs : onProgress[r]
  /\ parser = NoParser
  /\ bulkImport = Unmounted
  /\ dashboard = Unmounted
  /\ playerForm = Unmounted
  /\ app = Unmounted
  /\ listLog = NoListLog
  /\ pager = Unmounted

\* Mutant: the error of the callback leaves the function (the call stands in
\* front of the try block).
IterateThrowsUncaught(r) ==
  /\ pc[r] = "loop"
  /\ i[r] < Len(players[r])
  /\ onProgress[r]
  /\ \E error \in Thrown :
       trace' = trace \o << ProgressEvent(r, i[r] + 1, ProgressInfo(r)),
                            ThrowEvent(r, i[r] + 1, error) >>
  /\ pc' = [pc EXCEPT ![r] = "rejected"]
  /\ UNCHANGED <<players, onProgress, i, results, waited, network, localStorage, location>>

\* An iteration whose onProgress call throws: the catch block pushes
\* {name, error} and the loop goes on.
IterateThrows(r) ==
  /\ pc[r] = "loop"
  /\ i[r] < Len(players[r])
  /\ onProgress[r]
  /\ \E error \in Thrown :
       /\ trace' = trace \o << ProgressEvent(r, i[r] + 1, ProgressInfo(r)),
                               ThrowEvent(r, i[r] + 1, error) >>
       /\ results' = [results EXCEPT ![r].failed =
                        Append(@, [name |-> players[r][i[r] + 1].name,
                                   error |-> ErrorMessage(error)])]
  /\ i' = [i EXCEPT ![r] = @ + 1]
  /\ UNCHANGED <<players, onProgress, pc, waited, network, localStorage, location>>

ThrowNext ==
  \/ \E r \in Runs : Iterate(r) /\ UNCHANGED uiVars
  \/ \E r \in Runs : IterateThrows(r) /\ UNCHANGED uiVars
  \/ \E r \in Runs : CreateSettles(r) /\ UNCHANGED uiVars
  \/ Tick /\ UNCHANGED uiVars
  \/ \E r \in Runs : TimerFires(r) /\ UNCHANGED uiVars
  \/ \E r \in Runs : Return(r) /\ UNCHANGED uiVars

ThrowSpec == ThrowInit /\ [][ThrowNext]_vars

\* C30: if the progress callback throws when called for record i, no create
\* request is issued for record i, the record is added to failed with the
\* thrown error's message, no pause is taken, and the run continues with
\* record i+1 (the next thing the run does is the progress call for it, or
\* it returns after the last record); success.length + failed.length = total
\* holds at the end.
C30_ThrowingCallbackIsCaught ==
  \A r \in Runs :
    /\ pc[r] # "rejected"
    /\ pc[r] = "done" => Len(results[r].success) + Len(results[r].failed) = results[r].total
    /\ \A k \in 1..N(r) : \A p \in At("throw", r, k) :
         /\ At("request", r, k) = {}
         /\ At("setTimeout", r, k) = {}
         /\ \E f \in 1..Len(results[r].failed) :
              results[r].failed[f] = [name |-> players[r][k].name, error |-> trace[p].arg.message]
         /\ p < Len(trace) =>
              IF k < N(r)
              THEN trace[p + 1] = ProgressEvent(r, k + 1,
                     [current |-> k + 1, total |-> N(r), player |-> players[r][k + 1].name])
              ELSE trace[p + 1].type = "return"
         /\ pc[r] = "done" => \A j \in (k + 1)..N(r) : At("progress", r, j) # {}

\* A run of three records has returned: the callback threw for the second
\* one, the first and the third were created.
C30_Witness ==
  /\ pc[1] = "done" /\ N(1) = 3
  /\ At("throw", 1, 2) # {}
  /\ Len(results[1].success) = 2 /\ Len(results[1].failed) = 1
  /\ results[1].failed[1].error = "Progress failed"

====
